---- MODULE Spec2Model ----
(***************************************************************************)
(* A model of the circulate crate: RingBuffer<T> (src/src/ring_buffer.rs)  *)
(* and BufStream<S> (src/src/io.rs).                                       *)
(*                                                                         *)
(* A RingBuffer is the record [data, capacity, read, write].  data is the  *)
(* heap allocation, a sequence of capacity slots; the slot at offset i of  *)
(* the source is data[i + 1].  A slot holds Uninit (memory the allocator   *)
(* returned and nobody wrote) or the bit pattern of an element.  T is not  *)
(* zero-sized, and the element count stays far below isize::MAX.           *)
(* Elements are numbered in the order they are written: the k-th element   *)
(* written into a buffer is the number k.                                  *)
(***************************************************************************)
EXTENDS Integers, Sequences, FiniteSets, TLC

\* Bounds of the model.
MaxCap == 8       \* no allocation larger than this many slots is made
MaxPush == 6      \* at most this many elements are written into a buffer
MaxPop == 6       \* at most this many pops return a value
MaxRequest == 4   \* largest argument of with_capacity
MaxReserve == 2   \* largest argument of reserve
MaxIndex == 3     \* largest argument of get
MaxLifePush == 3  \* pushes in the specifications that call reserve or clear
MaxCursorPush == 2 \* elements written in the specification of the cursors
MaxCursorPop == 2 \* value-returning pops in the specification of the cursors
MaxBytes == 4     \* length of the byte sequence the transport delivers
MaxDest == 3      \* largest destination buffer of a read
MaxReceived == 9  \* at most this many bytes are returned by reads
MaxView == 2       \* the longest destination view of a read_vectored call
MaxStreamCap == 16 \* no allocation of a BufStream is larger than this

Uninit == 0       \* content of a slot that was never written
None == -1        \* Option::None

VARIABLES
    ring,        \* the RingBuffer<T> under test
    pushed,      \* number of elements written into ring so far
    popped,      \* the values pop handed to the caller, in order
    destroyed,   \* what drop_in_place was run on: per element a count, and
                 \* whether it ever ran on a slot holding no element
    torn,        \* TRUE once the buffer has been dropped
    heap,        \* the allocator as ring sees it: live allocations, events
    requested,   \* the argument of with_capacity, None after new()
    op,          \* the operation that ran last
    arg,         \* its argument
    ret,         \* its result
    input,       \* BufStream: the input RingBuffer<u8>
    sent,        \* number of bytes the transport has delivered so far
    received,    \* the bytes the read calls returned, concatenated
    delivered,   \* the bytes the last call put in each destination view
    fault,       \* the error the transport signalled in the last call, or None
    refill,      \* the last completed refill: views, counts, ring before and after
    iter,        \* the iterator over ring, NoIter when there is none
    yielded,     \* the values the iterator has yielded so far
    expected     \* the queued elements when the iterator was created

ringvars == <<ring, pushed, popped, destroyed, torn, requested, heap>>
streamvars == <<input, sent, received, delivered, fault, refill>>
itervars == <<iter, yielded, expected>>
vars == <<ring, pushed, popped, destroyed, torn, requested, heap, op, arg, ret,
          input, sent, received, delivered, fault, refill,
          iter, yielded, expected>>

Max(a, b) == IF a >= b THEN a ELSE b
Min(a, b) == IF a <= b THEN a ELSE b

\* Bitwise and of two naturals (the & of the cursor arithmetic).
RECURSIVE BitAnd(_, _)
BitAnd(a, b) ==
    IF a = 0 \/ b = 0 THEN 0
    ELSE (a % 2) * (b % 2) + 2 * BitAnd(a \div 2, b \div 2)

saturating_sub(a, b) == IF a >= b THEN a - b ELSE 0

RECURSIVE npot_from(_, _)
npot_from(p, n) == IF p >= n THEN p ELSE npot_from(2 * p, n)

\* usize::next_power_of_two: the smallest power of two >= n; 1 for n = 0.
next_power_of_two(n) == npot_from(1, n)

\* RingBuffer::new
new == [data |-> <<>>, capacity |-> 0, read |-> 0, write |-> 0]

\* layout_for() without the rounding to a power of two.
layout_for_exact(capacity) == Max(capacity, 2)

\* RingBuffer::layout_for, as the number of slots of the layout (None when
\* there is no layout).
layout_for(capacity) ==
    LET c == next_power_of_two(capacity)
    IN  IF c = 0 THEN None ELSE Max(c, 2)

\* RingBuffer::layout, as the number of slots of the current allocation.
layout(self) == IF self.capacity = 0 THEN None ELSE self.capacity

\* Memory as the allocator returns it.
fresh(n) == [i \in 1..n |-> Uninit]

\* RingBuffer::alloc: the allocation and its capacity.
alloc(capacity) ==
    LET l == layout_for(capacity)
    IN  IF l # None THEN <<fresh(l), l>> ELSE <<(<<>>), 0>>

\* RingBuffer::with_capacity
with_capacity(capacity) ==
    LET a == alloc(capacity)
    IN  [data |-> a[1], capacity |-> a[2], read |-> 0, write |-> 0]

\* RingBuffer::mask
mask(self) == saturating_sub(self.capacity, 1)

\* RingBuffer::empty
empty(self) == self.read = self.write

\* full() with the capacity in place of the mask.
full_unmasked(self) == BitAnd(self.write + 1, self.capacity) = self.read

\* RingBuffer::full
full(self) == BitAnd(self.write + 1, mask(self)) = self.read

\* len() with the sign of the wrapped difference reversed.
len_reversed(self) ==
    IF self.read <= self.write
    THEN self.write - self.read
    ELSE self.capacity + (self.read - self.write)

\* RingBuffer::len
len(self) ==
    IF self.read <= self.write
    THEN self.write - self.read
    ELSE self.capacity - (self.read - self.write)

\* A slice of the allocation: len slots from offset off.
Slice(off, n) == [off |-> off, len |-> n]
slice_vals(self, s) == [i \in 1..s.len |-> self.data[s.off + i]]

\* RingBuffer::as_mut_slices
as_mut_slices(self) ==
    IF self.read < self.write
    THEN <<Slice(self.read, self.write - self.read), Slice(0, 0)>>
    ELSE <<Slice(self.read, self.capacity - self.read), Slice(0, self.write)>>

\* RingBuffer::spare_capacity_mut
spare_capacity_mut(self) ==
    IF self.read < self.write
    THEN <<Slice(self.write, self.capacity - self.write),
           Slice(0, saturating_sub(self.read, 1))>>
    ELSE <<Slice(self.write, saturating_sub(self.read - self.write, 1)),
           Slice(0, 0)>>

\* RingBuffer::set_read_cursor
set_read_cursor(self, count) ==
    [self EXCEPT !.read = BitAnd(self.read + count, mask(self))]

\* RingBuffer::set_write_cursor
set_write_cursor(self, count) ==
    [self EXCEPT !.write = BitAnd(self.write + count, mask(self))]

\* RingBuffer::read_ptr, as an offset into the allocation.
read_ptr(self, index) == BitAnd(self.read + index, mask(self))

\* RingBuffer::get and get_mut: None, or the slot the reference points to.
get(self, index) ==
    IF empty(self) THEN None ELSE self.data[read_ptr(self, index) + 1]

\* RingBuffer::reserve
reserve(self, count) ==
    LET l == layout_for(self.capacity + count)
    IN  IF l = None THEN self
        ELSE IF layout(self) = None
        THEN [self EXCEPT !.data = fresh(l), !.capacity = l]
        ELSE LET s == as_mut_slices(self)
                 copied == slice_vals(self, s[1]) \o slice_vals(self, s[2])
             IN  [self EXCEPT
                    !.data = [i \in 1..l |->
                                IF i <= Len(copied) THEN copied[i] ELSE Uninit],
                    !.capacity = l]

\* RingBuffer::push
push(self, value) ==
    LET grown == IF full(self) THEN reserve(self, 1) ELSE self
    IN  [grown EXCEPT !.data[grown.write + 1] = value,
                      !.write = BitAnd(grown.write + 1, mask(grown))]

\* pop() without the early return on an empty buffer.
pop_unguarded(self) ==
    [self EXCEPT !.read = BitAnd(self.read + 1, mask(self))]

\* RingBuffer::pop: the buffer it leaves, and the slot it reads.
pop(self) ==
    IF empty(self) THEN self
    ELSE [self EXCEPT !.read = BitAnd(self.read + 1, mask(self))]

pop_slot(self) == IF empty(self) THEN None ELSE self.data[self.read + 1]

\* core::ptr::drop_in_place on a slice: every slot of it is destroyed.
RECURSIVE drop_in_place(_, _)
drop_in_place(d, vals) ==
    IF vals = <<>> THEN d
    ELSE LET v == Head(vals)
             d1 == IF v = Uninit
                   THEN [d EXCEPT !.uninit = TRUE]
                   ELSE [d EXCEPT !.count[v] = Min(@ + 1, 2)]
         IN  drop_in_place(d1, Tail(vals))

\* The destructor calls of RingBuffer::clear and of Drop::drop.
drop_slices(self, d) ==
    LET s == as_mut_slices(self)
    IN  drop_in_place(drop_in_place(d, slice_vals(self, s[1])),
                      slice_vals(self, s[2]))

\* clear() that resets only the read cursor.
clear_read_only(self) == [self EXCEPT !.read = 0]

\* RingBuffer::clear
clear(self) == [self EXCEPT !.read = 0, !.write = 0]

\* The queued elements, in the order successive pops read them.
Contents(self) ==
    [i \in 1..len(self) |-> self.data[BitAnd(self.read + i - 1, mask(self)) + 1]]

----
\* The operations on ring.

\* No refill of a BufStream has completed.
NoRefill ==
    [views |-> <<>>, counts |-> <<>>, count |-> 0,
     before |-> [data |-> <<>>, capacity |-> 0, read |-> 0, write |-> 0],
     after |-> [data |-> <<>>, capacity |-> 0, read |-> 0, write |-> 0]]

\* No iterator exists.
NoIter == [kind |-> "none", mask |-> 0, len |-> 0, cursor |-> 0]

InitIter == iter = NoIter /\ yielded = <<>> /\ expected = <<>>

\* The addresses the allocator hands out; it reuses a released one.
Addresses == 1..3

\* The allocator before any allocation.  live is the set of allocations
\* made and not released, owned the one self.data points to (0 when
\* dangling), events what the operation in progress did, in order, and
\* twice whether dealloc ever ran on an allocation that was not live.
NoHeap == [live |-> {}, owned |-> 0, events |-> <<>>, twice |-> FALSE]

\* The start of an operation.
heap_begin(h) == [h EXCEPT !.events = <<>>]

\* alloc(layout): the address returned.
heap_fresh(h) == CHOOSE a \in Addresses \ h.live : \A b \in Addresses \ h.live : a <= b

\* alloc(layout)
heap_alloc(h) ==
    [h EXCEPT !.live = h.live \cup {heap_fresh(h)},
              !.events = Append(h.events, <<"alloc", heap_fresh(h)>>)]

\* dealloc(ptr, layout)
heap_dealloc(h, ptr) ==
    [h EXCEPT !.live = h.live \ {ptr},
              !.events = Append(h.events, <<"dealloc", ptr>>),
              !.twice = h.twice \/ ptr \notin h.live]

\* RingBuffer::alloc, as with_capacity calls it.
heap_with_capacity(capacity) ==
    IF layout_for(capacity) # None
    THEN [heap_alloc(NoHeap) EXCEPT !.owned = heap_fresh(NoHeap)]
    ELSE NoHeap

\* reserve() keeping the old allocation after the copy.
heap_reserve_leak(h, self, count) ==
    IF layout_for(self.capacity + count) = None THEN h
    ELSE LET data == heap_fresh(h)
             made == heap_alloc(h)
         IN  IF layout(self) = None
             THEN [made EXCEPT !.owned = data]
             ELSE [made EXCEPT !.events = Append(made.events, <<"copy", data>>),
                               !.owned = data]

\* RingBuffer::reserve: the allocation, the copy into it, the release of
\* the old allocation and the assignment of self.data.
heap_reserve(h, self, count) ==
    IF layout_for(self.capacity + count) = None THEN h
    ELSE LET data == heap_fresh(h)
             made == heap_alloc(h)
         IN  IF layout(self) = None
             THEN [made EXCEPT !.owned = data]
             ELSE LET copied == [made EXCEPT
                                   !.events = Append(made.events, <<"copy", data>>)]
                  IN  [heap_dealloc(copied, h.owned) EXCEPT !.owned = data]

\* RingBuffer::push: reserve(1) when the buffer is full.
heap_push(h, self) == IF full(self) THEN heap_reserve(h, self, 1) ELSE h

\* Drop::drop: the release of the allocation, if there is one.
heap_drop(h, self) == IF layout(self) # None THEN heap_dealloc(h, h.owned) ELSE h

NoDrops == [count |-> [i \in 1..MaxPush |-> 0], uninit |-> FALSE]

InitRing ==
    /\ \/ ring = new /\ requested = None /\ op = "new" /\ arg = None
          /\ heap = NoHeap
       \/ \E n \in 0..MaxRequest :
            /\ ring = with_capacity(n)
            /\ heap = heap_with_capacity(n)
            /\ requested = n
            /\ op = "with_capacity"
            /\ arg = n
    /\ pushed = 0
    /\ popped = <<>>
    /\ destroyed = NoDrops
    /\ torn = FALSE
    /\ ret = None
    /\ input = new
    /\ sent = 0
    /\ received = <<>>
    /\ delivered = <<>>
    /\ fault = None
    /\ refill = NoRefill
    /\ InitIter

CanGrow(self, count) == layout_for(self.capacity + count) <= MaxCap

Push ==
    /\ ~torn
    /\ pushed < MaxPush
    /\ full(ring) => CanGrow(ring, 1)
    /\ ring' = push(ring, pushed + 1)
    /\ pushed' = pushed + 1
    /\ op' = "push" /\ arg' = pushed + 1 /\ ret' = None
    /\ heap' = heap_push(heap_begin(heap), ring)
    /\ UNCHANGED <<popped, destroyed, torn, requested, streamvars, itervars>>

\* Reading a slot nobody wrote is undefined: any bit pattern may come out
\* as the result.  popped records which element was handed out, Uninit
\* when the value is no element that was ever written.
Pop ==
    /\ ~torn
    /\ Len(popped) < MaxPop
    /\ ring' = pop(ring)
    /\ \E v \in (IF pop_slot(ring) = Uninit THEN 0..MaxPush ELSE {pop_slot(ring)}) :
         ret' = v
    /\ popped' = IF empty(ring) THEN popped ELSE Append(popped, pop_slot(ring))
    /\ op' = "pop" /\ arg' = None
    /\ heap' = heap_begin(heap)
    /\ UNCHANGED <<pushed, destroyed, torn, requested, streamvars, itervars>>

NextPP == Push \/ Pop

SpecPP == InitRing /\ [][NextPP]_vars

Reserve ==
    /\ ~torn
    /\ \E count \in 0..MaxReserve :
         /\ CanGrow(ring, count)
         /\ ring' = reserve(ring, count)
         /\ heap' = heap_reserve(heap_begin(heap), ring, count)
         /\ arg' = count
    /\ op' = "reserve" /\ ret' = None
    /\ UNCHANGED <<pushed, popped, destroyed, torn, requested, streamvars, itervars>>

Clear ==
    /\ ~torn
    /\ destroyed' = drop_slices(ring, destroyed)
    /\ ring' = clear(ring)
    /\ op' = "clear" /\ arg' = None /\ ret' = None
    /\ heap' = heap_begin(heap)
    /\ UNCHANGED <<pushed, popped, torn, requested, streamvars, itervars>>

\* Drop::drop: the destructor calls, then the allocation is released.
Drop ==
    /\ ~torn
    /\ destroyed' = drop_slices(ring, destroyed)
    /\ torn' = TRUE
    /\ op' = "drop" /\ arg' = None /\ ret' = None
    /\ heap' = heap_drop(heap_begin(heap), ring)
    /\ UNCHANGED <<ring, pushed, popped, requested, streamvars, itervars>>

Get ==
    /\ ~torn
    /\ \E index \in 0..MaxIndex :
         /\ ret' = get(ring, index)
         /\ arg' = index
    /\ op' = "get"
    /\ heap' = heap_begin(heap)
    /\ UNCHANGED <<ring, pushed, popped, destroyed, torn, requested, streamvars, itervars>>

\* The slots of a pair of slices, first slice then second, as offsets.
slice_offsets(s) ==
    [i \in 1..(s[1].len + s[2].len) |->
        IF i <= s[1].len THEN s[1].off + i - 1 ELSE s[2].off + i - s[1].len - 1]

\* Write the values vals[1], vals[2], ... into the slots offs[1], offs[2], ...
RECURSIVE write_slots(_, _, _)
write_slots(data, offs, vals) ==
    IF offs = <<>> THEN data
    ELSE write_slots([data EXCEPT ![Head(offs) + 1] = Head(vals)],
                     Tail(offs), Tail(vals))

\* The caller of spare_capacity_mut fills every slot of the views, first
\* view then second, and advances the write cursor by their total length.
fill_spare(self, first) ==
    LET offs == slice_offsets(spare_capacity_mut(self))
        k == Len(offs)
        written == [self EXCEPT
                      !.data = write_slots(self.data, offs,
                                           [i \in 1..k |-> first + i - 1])]
    IN  set_write_cursor(written, k)

FillSpare ==
    /\ ~torn
    /\ LET k == Len(slice_offsets(spare_capacity_mut(ring)))
       IN  /\ k >= 1
           /\ pushed + k <= MaxPush
           /\ ring' = fill_spare(ring, pushed + 1)
           /\ pushed' = pushed + k
           /\ arg' = k
    /\ op' = "fill" /\ ret' = None
    /\ heap' = heap_begin(heap)
    /\ UNCHANGED <<popped, destroyed, torn, requested, streamvars, itervars>>

\* Growth: push, pop and direct calls of reserve.
NextGrow == (pushed < MaxLifePush /\ Push) \/ Pop \/ Reserve

SpecGrow == InitRing /\ [][NextGrow]_vars

\* The life of the elements: push, pop, clear, reserve and the teardown.
NextDrop == (pushed < MaxLifePush /\ Push) \/ Pop \/ Clear \/ Reserve \/ Drop

SpecDrop == InitRing /\ [][NextDrop]_vars

\* A caller of set_read_cursor that respects its precondition: count is
\* within the occupied region.
SetReadCursor ==
    /\ ~torn
    /\ \E count \in 1..len(ring) :
         /\ ring' = set_read_cursor(ring, count)
         /\ arg' = count
    /\ op' = "set_read_cursor" /\ ret' = None
    /\ heap' = heap_begin(heap)
    /\ UNCHANGED <<pushed, popped, destroyed, torn, requested, streamvars, itervars>>

\* The caller of set_write_cursor has written the count slots from the
\* write cursor on.
write_ahead(self, count, first) ==
    [self EXCEPT
       !.data = write_slots(self.data,
                            [i \in 1..count |->
                                BitAnd(self.write + i - 1, mask(self))],
                            [i \in 1..count |-> first + i - 1])]

\* A caller of set_write_cursor that respects its precondition: count does
\* not exceed one less than the remaining capacity.
SetWriteCursor ==
    /\ ~torn
    /\ \E count \in 1..(ring.capacity - 1 - len(ring)) :
         /\ pushed + count <= MaxPush
         /\ ring' = set_write_cursor(write_ahead(ring, count, pushed + 1), count)
         /\ pushed' = pushed + count
         /\ arg' = count
    /\ op' = "set_write_cursor" /\ ret' = None
    /\ heap' = heap_begin(heap)
    /\ UNCHANGED <<popped, destroyed, torn, requested, streamvars, itervars>>

\* Every operation that moves a cursor or replaces the allocation.
NextCursors ==
    \/ (pushed < MaxCursorPush /\ Push)
    \/ (Len(popped) < MaxCursorPop /\ Pop)
    \/ Reserve
    \/ Clear
    \/ SetReadCursor
    \/ (SetWriteCursor /\ pushed' <= MaxCursorPush)

\* new() or with_capacity(n), the argument not recorded.
InitCursors ==
    /\ ring \in {new} \cup {with_capacity(n) : n \in 0..MaxRequest}
    /\ op = (IF ring = new THEN "new" ELSE "with_capacity")
    /\ heap = (IF ring = new THEN NoHeap ELSE heap_with_capacity(0))
    /\ arg = None
    /\ requested = None
    /\ pushed = 0
    /\ popped = <<>>
    /\ destroyed = NoDrops
    /\ torn = FALSE
    /\ ret = None
    /\ input = new
    /\ sent = 0
    /\ received = <<>>
    /\ delivered = <<>>
    /\ fault = None
    /\ refill = NoRefill
    /\ InitIter

SpecCursors == InitCursors /\ [][NextCursors]_vars

\* RingBuffer::iter with the cursor at offset 0 instead of the read cursor.
iter_from_zero(self) ==
    [kind |-> "iter", mask |-> mask(self), len |-> len(self), cursor |-> 0]

\* RingBuffer::iter and RingBuffer::iter_mut: the Iter / IterMut they make.
\* The data pointer of the iterator is the allocation of the buffer.
make_iter(self) ==
    [kind |-> "iter", mask |-> mask(self), len |-> len(self),
     cursor |-> self.read]

\* Iterator::next of Iter and IterMut: the iterator it leaves.
iter_next(it) ==
    IF it.len = 0 THEN it
    ELSE [it EXCEPT !.len = it.len - 1,
                    !.cursor = BitAnd(it.cursor + 1, it.mask)]

\* Iterator::next of Iter and IterMut: None, or the slot it refers to.
iter_item(it, data) == IF it.len = 0 THEN None ELSE data[it.cursor + 1]

\* iter() or iter_mut(): the buffer is borrowed until the iterator ends.
IterStart ==
    /\ ~torn /\ iter = NoIter
    /\ iter' = make_iter(ring)
    /\ yielded' = <<>>
    /\ expected' = Contents(ring)
    /\ op' = "iter" /\ arg' = None /\ ret' = None
    /\ UNCHANGED <<ringvars, streamvars>>

IterNext ==
    /\ iter.kind = "iter"
    /\ iter' = iter_next(iter)
    /\ ret' = iter_item(iter, ring.data)
    /\ yielded' = IF iter.len = 0 THEN yielded
                  ELSE Append(yielded, iter_item(iter, ring.data))
    /\ op' = "iter_next" /\ arg' = None
    /\ UNCHANGED <<ringvars, streamvars, expected>>

\* The iterator is dropped and the borrow ends.
IterEnd ==
    /\ iter.kind = "iter"
    /\ iter' = NoIter /\ yielded' = <<>> /\ expected' = <<>>
    /\ op' = "iter_end" /\ arg' = None /\ ret' = None
    /\ UNCHANGED <<ringvars, streamvars>>

\* IntoIterator::into_iter: the buffer moves into the IntoIter.
IntoIter ==
    /\ ~torn /\ iter = NoIter
    /\ iter' = [NoIter EXCEPT !.kind = "into_iter"]
    /\ yielded' = <<>>
    /\ expected' = Contents(ring)
    /\ op' = "into_iter" /\ arg' = None /\ ret' = None
    /\ UNCHANGED <<ringvars, streamvars>>

\* Iterator::next of IntoIter: self.0.pop()
IntoIterNext ==
    /\ iter.kind = "into_iter"
    /\ ring' = pop(ring)
    /\ \E v \in (IF pop_slot(ring) = Uninit THEN 0..MaxPush ELSE {pop_slot(ring)}) :
         /\ ret' = v
         /\ yielded' = IF empty(ring) THEN yielded ELSE Append(yielded, v)
    /\ op' = "into_iter_next" /\ arg' = None
    /\ heap' = heap_begin(heap)
    /\ UNCHANGED <<pushed, popped, destroyed, torn, requested, streamvars,
                   iter, expected>>

\* The allocations: construction, push, pop, reserve, clear and teardown.
NextAlloc ==
    \/ (pushed < MaxCursorPush /\ Push)
    \/ (Len(popped) < MaxCursorPop /\ Pop)
    \/ Reserve
    \/ Clear
    \/ Drop

SpecAlloc == InitCursors /\ [][NextAlloc]_vars

\* Iteration over the buffers that push and pop make.
NextIter ==
    \/ (iter = NoIter /\ Push)
    \/ (iter = NoIter /\ Pop)
    \/ IterStart
    \/ IterNext
    \/ IterEnd
    \/ IntoIter
    \/ IntoIterNext

SpecIter == InitRing /\ [][NextIter]_vars

\* Writing through the spare-capacity views.
NextSpare == Push \/ Pop \/ FillSpare

SpecSpare == InitRing /\ [][NextSpare]_vars

\* Positional access.
NextGet == Push \/ Pop \/ Get

SpecGet == InitRing /\ [][NextGet]_vars

----
\* BufStream<S> over a transport S that delivers the bytes 1, 2, ...,
\* MaxBytes in this order: byte number b has the value b.

\* The errors the transport can signal (Read::Error), as codes.
Errors == {-2, -3}

\* The sum of a sequence of counts.
RECURSIVE Sum(_)
Sum(ks) == IF ks = <<>> THEN 0 ELSE Head(ks) + Sum(Tail(ks))

\* Read::read of the transport, a single attempt: the possible counts for
\* a destination of n bytes when avail bytes are left to deliver.
transport_read(n, avail) == 0..Min(n, avail)

\* The buffers [lhs, rhs][..parts] that buffer_read hands to the transport.
read_views(sp) ==
    LET parts == IF sp[1].len = 0 /\ sp[2].len = 0 THEN 0
                 ELSE IF sp[2].len = 0 THEN 1
                 ELSE 2
    IN  SubSeq(sp, 1, parts)

\* Read::read_vectored, the provided method: one read per buffer, in order.
\* ks[i] is the count the i-th read reports, first the next byte to deliver.
RECURSIVE read_vectored(_, _, _, _)
read_vectored(data, buffers, ks, first) ==
    IF buffers = <<>> THEN [data |-> data, read |-> 0]
    ELSE LET buffer == Head(buffers)
             k == Head(ks)
             filled == write_slots(data,
                                   [i \in 1..k |-> buffer.off + i - 1],
                                   [i \in 1..k |-> first + i - 1])
             rest == read_vectored(filled, Tail(buffers), Tail(ks), first + k)
         IN  [data |-> rest.data, read |-> k + rest.read]

\* BufStream::buffer_read up to the call of the transport.
buffer_read_grown(self) == IF full(self) THEN reserve(self, 1) ELSE self

\* buffer_read advancing the write cursor by the length of the views, not
\* by the count the transport reported.
buffer_read_advanced_by_views(self, ks, first) ==
    LET grown == buffer_read_grown(self)
        buffers == read_views(spare_capacity_mut(grown))
        r == read_vectored(grown.data, buffers, ks, first)
    IN  set_write_cursor([grown EXCEPT !.data = r.data],
                         Sum([i \in 1..Len(buffers) |-> buffers[i].len]))

\* BufStream::buffer_read up to the advance of the write cursor.
buffer_read_advanced(self, ks, first) ==
    LET grown == buffer_read_grown(self)
        buffers == read_views(spare_capacity_mut(grown))
        r == read_vectored(grown.data, buffers, ks, first)
    IN  set_write_cursor([grown EXCEPT !.data = r.data], r.read)

\* BufStream::buffer_read
buffer_read(self, ks, first) ==
    LET advanced == buffer_read_advanced(self, ks, first)
    IN  IF full(advanced) THEN reserve(advanced, 1) ELSE advanced

\* BufStream::read_into for a destination of n bytes: the input buffer it
\* leaves and the bytes it copies to the destination.  The copy is untyped:
\* a slot nobody wrote arrives in the destination as Uninit.
read_into(self, n) ==
    LET s == as_mut_slices(self)
        lhs == slice_vals(self, s[1])
        rhs == slice_vals(self, s[2])
        lhs_len == Min(n, Len(lhs))
        rhs_len == Min(n - lhs_len, Len(rhs))
        total_len == lhs_len + rhs_len
    IN  [input |-> set_read_cursor(self, total_len),
         bytes |-> SubSeq(lhs, 1, lhs_len) \o SubSeq(rhs, 1, rhs_len)]

\* BufStream::new and BufStream::with_capacity
InitStream ==
    /\ \/ input = with_capacity(0) /\ op = "new" /\ arg = None
       \/ \E n \in 0..MaxRequest :
            input = with_capacity(n) /\ op = "with_capacity" /\ arg = n
    /\ sent = 0
    /\ received = <<>>
    /\ delivered = <<>>
    /\ fault = None
    /\ refill = NoRefill
    /\ InitIter
    /\ ret = None
    /\ ring = new
    /\ heap = NoHeap
    /\ pushed = 0
    /\ popped = <<>>
    /\ destroyed = NoDrops
    /\ torn = FALSE
    /\ requested = None

\* The counts the transport may report for the buffers, one per buffer.
transport_outcomes(buffers, avail) ==
    IF Len(buffers) = 0 THEN {<<>>}
    ELSE IF Len(buffers) = 1
    THEN {<<k>> : k \in transport_read(buffers[1].len, avail)}
    ELSE UNION {{<<k1, k2>> : k2 \in transport_read(buffers[2].len, avail - k1)} :
                    k1 \in transport_read(buffers[1].len, avail)}

StreamCanGrow(self, count) == layout_for(self.capacity + count) <= MaxStreamCap

\* <BufStream as Read>::read into a destination of n bytes.
StreamRead ==
    /\ \E n \in 1..MaxDest :
         /\ Len(received) + n <= MaxReceived
         /\ full(input) => StreamCanGrow(input, 1)
         /\ LET buffers == read_views(spare_capacity_mut(buffer_read_grown(input)))
            IN  \E ks \in transport_outcomes(buffers, MaxBytes - sent) :
                  LET advanced == buffer_read_advanced(input, ks, sent + 1)
                      count == IF ks = <<>> THEN 0
                               ELSE IF Len(ks) = 1 THEN ks[1] ELSE ks[1] + ks[2]
                      r == read_into(buffer_read(input, ks, sent + 1), n)
                  IN  /\ full(advanced) => StreamCanGrow(advanced, 1)
                      /\ input' = r.input
                      /\ sent' = sent + count
                      /\ received' = received \o r.bytes
                      /\ delivered' = <<r.bytes>>
                      /\ refill' = [views |-> buffers, counts |-> ks,
                                    count |-> Sum(ks),
                                    before |-> buffer_read_grown(input),
                                    after |-> advanced]
                      /\ ret' = Len(r.bytes)
                      /\ arg' = n
    /\ op' = "read" /\ fault' = None
    /\ UNCHANGED <<ringvars, itervars>>

\* The loop of <BufStream as Read>::read_vectored: read_into for each
\* destination view in order; ns are the lengths of the views.
RECURSIVE read_into_each(_, _)
read_into_each(self, ns) ==
    IF ns = <<>> THEN [input |-> self, views |-> <<>>]
    ELSE LET r == read_into(self, Head(ns))
             rest == read_into_each(r.input, Tail(ns))
         IN  [input |-> rest.input, views |-> <<r.bytes>> \o rest.views]

\* The concatenation of a sequence of sequences.
RECURSIVE Flatten(_)
Flatten(ss) == IF ss = <<>> THEN <<>> ELSE Head(ss) \o Flatten(Tail(ss))

\* <BufStream as Read>::read_vectored into two destination views.
StreamReadVectored ==
    /\ \E n1, n2 \in 1..MaxView :
         /\ Len(received) + n1 + n2 <= MaxReceived
         /\ full(input) => StreamCanGrow(input, 1)
         /\ LET buffers == read_views(spare_capacity_mut(buffer_read_grown(input)))
            IN  \E ks \in transport_outcomes(buffers, MaxBytes - sent) :
                  LET advanced == buffer_read_advanced(input, ks, sent + 1)
                      r == read_into_each(buffer_read(input, ks, sent + 1),
                                          <<n1, n2>>)
                  IN  /\ full(advanced) => StreamCanGrow(advanced, 1)
                      /\ input' = r.input
                      /\ sent' = sent + Sum(ks)
                      /\ received' = received \o Flatten(r.views)
                      /\ delivered' = r.views
                      /\ refill' = [views |-> buffers, counts |-> ks,
                                    count |-> Sum(ks),
                                    before |-> buffer_read_grown(input),
                                    after |-> advanced]
                      /\ ret' = Len(Flatten(r.views))
                      /\ arg' = <<n1, n2>>
    /\ op' = "read_vectored" /\ fault' = None
    /\ UNCHANGED <<ringvars, itervars>>

\* BufStream::buffer_read when the transport fails: the reads of the
\* provided read_vectored before the failing one reported the counts ks.
buffer_read_failed(self, ks, first) ==
    LET grown == buffer_read_grown(self)
        buffers == read_views(spare_capacity_mut(grown))
        r == read_vectored(grown.data, SubSeq(buffers, 1, Len(ks)), ks, first)
    IN  [grown EXCEPT !.data = r.data]

\* buffer_read, read or read_vectored of the BufStream when the
\* read_vectored of the transport fails with e: the `?` returns e before
\* the write cursor moves.  The provided read_vectored fails in one of its
\* reads, after j of them; the one of io/std.rs hands the buffers to
\* std::io::Read::read_vectored, which can fail for an empty list too.
StreamReadErr ==
    /\ full(input) => StreamCanGrow(input, 1)
    /\ LET buffers == read_views(spare_capacity_mut(buffer_read_grown(input)))
       IN  \E j \in 0..Max(Len(buffers) - 1, 0) :
             \E ks \in transport_outcomes(SubSeq(buffers, 1, j), MaxBytes - sent) :
                /\ input' = buffer_read_failed(input, ks, sent + 1)
                /\ sent' = sent + Sum(ks)
    /\ \E e \in Errors : ret' = e /\ fault' = e
    /\ received' = received
    /\ delivered' = <<>>
    /\ refill' = NoRefill
    /\ op' = "buffer_read" /\ arg' = None
    /\ UNCHANGED <<ringvars, itervars>>

NextStream == StreamRead \/ StreamReadVectored \/ StreamReadErr

SpecStream == InitStream /\ [][NextStream]_vars

----
\* Claims about push and pop (SpecPP).

\* C1: FIFO order: the values popped so far followed by the values still
\* queued are the values pushed, each once and in push order; nothing is
\* lost, duplicated or reordered.
C1_FIFO == popped \o Contents(ring) = [i \in 1..pushed |-> i]

\* C6: len() is never greater than the number of pushes minus the number
\* of pops that returned a value.
C6_LenBound == len(ring) <= pushed - Len(popped)

\* C6 witness: after a growth and a pop, elements are still queued.
C6_Witness ==
    /\ ring.capacity >= 4
    /\ Len(popped) >= 1
    /\ len(ring) >= 2
    /\ len(ring) = pushed - Len(popped)

\* C7 as stated: empty() exactly when len() == 0 and full() exactly when
\* len() == capacity - 1.
C7_Original ==
    /\ empty(ring) <=> len(ring) = 0
    /\ full(ring) <=> len(ring) = ring.capacity - 1

\* C7 amended: empty() exactly when len() == 0, and full() exactly when
\* len() == capacity - 1 with the subtraction saturating at 0 (mask()), so
\* that the unallocated buffer of new() is both empty and full.
C7_EmptyFull ==
    /\ empty(ring) <=> len(ring) = 0
    /\ full(ring) <=> len(ring) = saturating_sub(ring.capacity, 1)

\* C7 witness: a full buffer whose occupied region wraps the physical end.
C7_Witness == full(ring) /\ ring.read > ring.write /\ ring.capacity >= 4

\* C9: pop() on an empty buffer returns nothing and changes nothing; on a
\* non-empty buffer it returns the element at the read cursor and advances
\* only the read cursor by one, masked by capacity - 1.
C9_Pop ==
    [][op' = "pop" =>
        IF ring.read = ring.write
        THEN ret' = None /\ ring' = ring
        ELSE /\ ret' = ring.data[ring.read + 1]
             /\ ring' = [ring EXCEPT
                           !.read = BitAnd(ring.read + 1, ring.capacity - 1)]]_vars

\* C9 witness: a pop returned a value and wrapped the read cursor to 0.
C9_Witness ==
    op = "pop" /\ ret # None /\ ring.read = 0 /\ ring.capacity >= 2

\* C10: n consecutive pushes onto the buffer with_capacity(n) created
\* leave its capacity unchanged.
C10_Room ==
    (requested # None /\ popped = <<>> /\ pushed <= requested)
        => ring.capacity = with_capacity(requested).capacity

----
\* Claims about the other operations of the ring buffer.

\* C2: growth preserves contents: reserve(count), called directly or by
\* push on a full buffer, leaves len() as it was, and draining the buffer
\* yields the same elements in the same order as before the growth.
C2_GrowthPreserves ==
    [][/\ op' = "reserve" =>
            /\ len(ring') = len(ring)
            /\ Contents(ring') = Contents(ring)
       /\ (op' = "push" /\ full(ring)) =>
            Contents(ring') = Append(Contents(ring), arg')]_vars

\* The number of times pop handed out element e.
HandedOut(e) == Cardinality({i \in DOMAIN popped : popped[i] = e})

\* C3: every element is destroyed exactly once: no element is handed out
\* or destroyed more than once in total, clear and teardown never destroy
\* a slot that holds no element, and after the teardown every pushed
\* element has been handed out or destroyed.
C3_ExactlyOnce ==
    /\ ~destroyed.uninit
    /\ \A e \in 1..pushed : HandedOut(e) + destroyed.count[e] <= 1
    /\ torn => \A e \in 1..pushed : HandedOut(e) + destroyed.count[e] = 1

\* C5: writing k elements through the spare-capacity views of total length
\* k and advancing the write cursor by k makes len() grow by exactly k, and
\* the buffer then holds the previously queued elements followed by those
\* k elements in the order written.
C5_SpareContract ==
    [][op' = "fill" =>
        /\ len(ring') = len(ring) + arg'
        /\ Contents(ring') = Contents(ring) \o [i \in 1..arg' |-> pushed + i]]_vars

\* C8: get(index) returns nothing whenever the buffer is empty or
\* index >= len().
C8_OutOfRange ==
    (op = "get" /\ (empty(ring) \/ arg >= len(ring))) => ret = None

\* C11: reserve(count) ensures room for at least count more elements:
\* after it, capacity - 1 - len() >= count.
C11_ReserveRoom ==
    op = "reserve" => ring.capacity - 1 - len(ring) >= arg

\* C16: as_mut_slices() returns exactly the occupied region: the two views
\* have total length len() and list the queued elements in pop order, and
\* the second view is non-empty only when the region wraps the physical end.
C16_OccupiedSlices ==
    LET s == as_mut_slices(ring)
    IN  /\ s[1].len + s[2].len = len(ring)
        /\ slice_vals(ring, s[1]) \o slice_vals(ring, s[2]) = Contents(ring)
        /\ s[2].len > 0 => ring.read > ring.write

\* C20: a reserve that replaces an existing allocation leaves the live
\* elements contiguously from offset 0, read == 0 and write == the value
\* len() had before the call.
C20_ReserveResets ==
    [][(op' = "reserve" /\ ring.capacity > 0) =>
        /\ ring'.read = 0
        /\ ring'.write = len(ring)
        /\ SubSeq(ring'.data, 1, len(ring)) = Contents(ring)]_vars

\* C17: clear() resets both cursors to 0, so that len() == 0 and empty()
\* holds, and leaves the capacity unchanged; a pop that follows it returns
\* nothing.
C17_Clear ==
    [][/\ op' = "clear" =>
            /\ ring'.read = 0 /\ ring'.write = 0
            /\ len(ring') = 0 /\ empty(ring')
            /\ ring'.capacity = ring.capacity
       /\ (op = "clear" /\ op' = "pop") => ret' = None]_vars

\* C17 witness: a buffer with elements queued past the physical end was
\* cleared.
C17_Witness ==
    /\ op = "clear"
    /\ ring.capacity >= 2
    /\ \E e \in 1..pushed : destroyed.count[e] >= 1 /\ ring.data[1] = e /\ e >= 2

\* The capacities a buffer may have: 0 or a power of two >= 2.
IsCapacity(c) == c = 0 \/ \E k \in 1..MaxCap : c = 2 ^ k

\* C19: capacity is 0 or a power of two >= 2, and the read and write
\* cursors are both < capacity (both 0 when capacity is 0).
C19_Structure ==
    /\ IsCapacity(ring.capacity)
    /\ ring.capacity = 0 => (ring.read = 0 /\ ring.write = 0)
    /\ ring.capacity > 0 => (ring.read < ring.capacity /\ ring.write < ring.capacity)

\* C19 witness: in a grown buffer whose occupied region wraps the physical
\* end, a caller advanced the read cursor.
C19_Witness ==
    /\ op = "set_read_cursor"
    /\ ring.capacity >= 4
    /\ ring.write < ring.read

\* C18: iteration is finite and in pop order: iter()/iter_mut() yield
\* exactly len() elements, the i-th being the element the i-th successive
\* pop would return, then end, leaving the buffer unchanged; into_iter
\* yields the elements queued when it was called, in pop order, and ends
\* after len() of them.
C18_Iteration ==
    [][/\ op' = "iter_next" =>
            /\ ring' = ring
            /\ IF Len(yielded) < len(ring)
               THEN /\ ret' = Contents(ring)[Len(yielded) + 1]
                    /\ yielded' = Append(yielded, ret')
               ELSE ret' = None /\ yielded' = yielded
       /\ op' = "into_iter_next" =>
            IF Len(yielded) < Len(expected)
            THEN /\ ret' = expected[Len(yielded) + 1]
                 /\ yielded' = Append(yielded, ret')
            ELSE ret' = None /\ yielded' = yielded]_vars

\* C18 witness: an iterator over a buffer whose occupied region wraps the
\* physical end has yielded its elements and ended.
C18_Witness ==
    /\ op = "iter_next" /\ ret = None
    /\ ring.read > ring.write
    /\ Len(yielded) >= 2
    /\ yielded = Contents(ring)

\* C21: reserve(0) on a buffer without an allocation changes nothing: the
\* capacity stays 0, no allocation is made, and empty(), full(), len() and
\* layout() are what they were.
C21_ReserveZeroNoop ==
    [][(op' = "reserve" /\ arg' = 0 /\ layout(ring) = None) =>
         /\ ring'.capacity = 0
         /\ ring'.data = <<>>
         /\ layout(ring') = layout(ring)
         /\ empty(ring') = empty(ring)
         /\ full(ring') = full(ring)
         /\ len(ring') = len(ring)]_vars

\* C24: with capacity > 0 the views of spare_capacity_mut() have total
\* length capacity - 1 - len(), start at the write cursor and contain no
\* slot of a queued element; an empty buffer of capacity c has c - 1 spare
\* slots.
C24_SpareViews ==
    ring.capacity > 0 =>
       LET sp == spare_capacity_mut(ring)
           offs == slice_offsets(sp)
           live == {BitAnd(ring.read + i, mask(ring)) : i \in 0..(len(ring) - 1)}
       IN  /\ Len(offs) = ring.capacity - 1 - len(ring)
           /\ sp[1].off = ring.write
           /\ \A i \in 1..Len(offs) : offs[i] \notin live

\* C25: a growth allocates the new memory before it releases the old one,
\* and releases the old one exactly once, after the copy; between
\* operations the buffer owns at most one allocation, no allocation is
\* ever released twice, and after the teardown every allocation made has
\* been released.
C25_Allocation ==
    [][/\ ~heap'.twice
       /\ Cardinality(heap.live) <= 1
       /\ Cardinality(heap'.live) <= 1
       /\ ~torn' => heap'.live = (IF ring'.capacity > 0 THEN {heap'.owned} ELSE {})
       /\ torn' => heap'.live = {}
       /\ ((op' = "reserve" \/ (op' = "push" /\ full(ring))) /\ ring.capacity > 0) =>
             /\ Len(heap'.events) = 3
             /\ heap'.events[1] = <<"alloc", heap'.owned>>
             /\ heap'.events[2] = <<"copy", heap'.owned>>
             /\ heap'.events[3] = <<"dealloc", heap.owned>>
             /\ heap'.owned # heap.owned
       /\ op' = "drop" =>
             heap'.events = (IF ring.capacity > 0
                             THEN << <<"dealloc", heap.owned>> >> ELSE <<>>)]_vars

\* C25 witness: a buffer that grew twice has been torn down and nothing is
\* left allocated.
C25_Witness ==
    /\ torn
    /\ op = "drop"
    /\ ring.capacity >= 8
    /\ pushed >= 2
    /\ heap.live = {}
    /\ Len(heap.events) = 1

----
\* Claims about BufStream (SpecStream).

\* C4: stream integrity: the bytes the read calls returned, concatenated,
\* are a prefix of the byte sequence the transport delivered.
C4_StreamIntegrity ==
    /\ Len(received) <= sent
    /\ \A i \in 1..Len(received) : received[i] = i

\* The views buffer_read hands to the transport in the current state.
Views == read_views(spare_capacity_mut(buffer_read_grown(input)))

\* C12: read(buffer) performs one refill and then returns
\* min(buffer length, number of bytes buffered after the refill), copies
\* exactly that many buffered bytes in order and advances the read cursor
\* of the input buffer by that count (0 when nothing is buffered).
C12_ReadCount ==
    [][op' = "read" =>
         \E ks \in transport_outcomes(Views, MaxBytes - sent) :
            LET filled == buffer_read(input, ks, sent + 1)
            IN  /\ sent' = sent + Sum(ks)
                /\ ret' = Min(arg', len(filled))
                /\ received' = received \o SubSeq(Contents(filled), 1, ret')
                /\ input' = set_read_cursor(filled, ret')]_vars

\* C13: every buffer_read hands the transport destination views of total
\* length at least 1, whatever the fill of the input buffer before the call.
C13_MeaningfulRead ==
    [][op' \in {"read", "read_vectored", "buffer_read"} =>
         Sum([i \in 1..Len(Views) |-> Views[i].len]) >= 1]_vars

\* C15: read_vectored(buffers) performs one refill and then drains the
\* buffered bytes into the destination views in order: the total is
\* min(sum of the view lengths, bytes buffered after the refill), each view
\* gets the bytes that follow those of the view before it, and a view
\* after the buffered bytes are exhausted gets none.
C15_VectoredDrain ==
    [][op' = "read_vectored" =>
         \E ks \in transport_outcomes(Views, MaxBytes - sent) :
            LET filled == buffer_read(input, ks, sent + 1)
                total == Min(Sum(arg'), len(filled))
                first == Min(arg'[1], len(filled))
            IN  /\ sent' = sent + Sum(ks)
                /\ ret' = total
                /\ delivered' = <<SubSeq(Contents(filled), 1, first),
                                  SubSeq(Contents(filled), first + 1, total)>>
                /\ input' = set_read_cursor(filled, total)]_vars

\* C14: when a read of the transport fails, the call returns that error,
\* no byte reaches the caller, the cursors of the input buffer stay where
\* they were and the bytes buffered before the call are still buffered, in
\* the same order.
C14_ErrorPropagated ==
    [][fault' # None =>
         /\ ret' = fault'
         /\ received' = received
         /\ delivered' = <<>>
         /\ input'.read = input.read
         /\ input'.write = input.write
         /\ Contents(input') = Contents(input)]_vars

\* Offset off of the allocation lies in one of the views.
InViews(views, off) ==
    \E i \in 1..Len(views) : views[i].off <= off /\ off < views[i].off + views[i].len

\* C22: a refill takes the spare views, makes one vectored read over them
\* and then advances the write cursor by exactly the count the transport
\* reported; the count is at most the total length of the views, nothing
\* else of the ring changes in between, and the read cursor stays.
C22_RefillAdvance ==
    /\ refill.views = read_views(spare_capacity_mut(refill.before))
    /\ refill.count <= Sum([i \in 1..Len(refill.views) |-> refill.views[i].len])
    /\ refill.after.write =
          BitAnd(refill.before.write + refill.count, mask(refill.before))
    /\ refill.after.read = refill.before.read
    /\ refill.after.capacity = refill.before.capacity
    /\ \A off \in 0..(refill.before.capacity - 1) :
          ~InViews(refill.views, off) =>
             refill.after.data[off + 1] = refill.before.data[off + 1]

\* C22 witness: a read refilled the ring with as many bytes as the view
\* holds and the write cursor wrapped to the start of the allocation.
C22_Witness ==
    /\ op \in {"read", "read_vectored"}
    /\ refill.count >= 2
    /\ refill.count = refill.views[1].len
    /\ refill.after.write < refill.before.write

\* C23: the provided read_vectored reads the regions in order and stops at
\* the first one that a read fills only partly: no later region is read
\* into, so the bytes counted are one run without a gap.
C23_ShortCircuit ==
    \A i \in 1..Len(refill.views) :
       refill.counts[i] < refill.views[i].len =>
          \A j \in (i + 1)..Len(refill.views) : refill.counts[j] = 0

====
